---- MODULE Spec2Model ----
(***************************************************************************)
(* Condensation strategy framework of openhands.memory.condenser:          *)
(* the condenser strategies (NoOp, LastK, LLM, the tests' SimpleCondenser),*)
(* the triggers, and the rolling condenser that keeps a running            *)
(* condensation plus a watermark into the external, growing history.       *)
(***************************************************************************)
EXTENDS Integers, Sequences, FiniteSets, TLC

VARIABLES
    history,               \* state.history, owned by the agent loop
    extra_data,            \* state.extra_data: keys written so far
    trigger,               \* self._trigger of the rolling condenser
    strategy,              \* which condense() the instance dispatches to
    condensation,          \* self._condensation
    last_history_length,   \* self._last_history_length
    outcome,               \* how the last condensed_history call ended
    result,                \* the list the last successful call returned
    error,                 \* the exception the last failed call raised
    fired,                 \* should_fire(state) as evaluated by the last call
    condense_calls,        \* invocations of self.condense in the last call
    seen,                  \* what the last call found on entry
    steps,                 \* rounds of (append one event, call) so far, or -1
    events,                \* argument of Condenser.condense (strategy runs)
    cond,                  \* the condenser instance condense is called on
    output,                \* what condense did with events
    applied,               \* condense has run on events
    fed,                   \* events is the previous output of the same cond
    shrinks,               \* times state.history was replaced by a shorter list
    llm_response,          \* what llm.completion did in the last condense call
    registry,              \* Condenser._registry
    first_registered,      \* the class each name was first registered with
    reg_call,              \* the last register / get_cls call and how it ended
    config,                \* the last LastKCondenserConfig(...) call
    built,                 \* the last HistoryLengthTrigger(...) call
    evaluated              \* should_fire has run on trigger and history

vars == <<history, extra_data, trigger, strategy, condensation,
          last_history_length, outcome, result, error, fired, condense_calls,
          seen, steps, events, cond, output, applied, fed,
          shrinks, llm_response, registry, first_registered, reg_call, config,
          built, evaluated>>

rollingVars == <<history, extra_data, trigger, strategy, condensation,
                 last_history_length, outcome, result, error, fired,
                 condense_calls, seen, steps, shrinks>>

condenseVars == <<events, cond, output, applied, fed, llm_response>>

setupVars == <<registry, first_registered, reg_call, config>>

triggerVars == <<built, evaluated>>

-----------------------------------------------------------------------------
(* Bounds *)

MaxHist == 3        \* longest state.history
MaxLen == 4         \* longest argument of a direct condense call
MaxK == 2           \* largest LastKCondenser.k
MaxMinLength == 3   \* largest HistoryLengthTrigger.min_length
MaxShrinks == 1     \* how often state.history may be cut short

-----------------------------------------------------------------------------
(* Events *)

Roles == {"user", "assistant", "system"}
Contents == {"a", "b"}
SummaryTexts == {"s", "t"}

Event(content, role) == [content |-> content, role |-> role]

Events == {Event(c, r) : c \in Contents, r \in Roles}

\* the events the agent loop appends to state.history
HistoryEvents == {Event(c, r) : c \in Contents, r \in {"user", "assistant"}}

SeqsUpTo(S, n) == UNION {[1..m -> S] : m \in 0..n}

-----------------------------------------------------------------------------
(* Python list primitives *)

Min(a, b) == IF a <= b THEN a ELSE b
Max(a, b) == IF a >= b THEN a ELSE b

\* s[i:] for any integer i: a negative i counts from the end, and an index
\* outside the list is clamped, never an error
PySliceFrom(s, i) ==
    LET start == IF i < 0 THEN Max(Len(s) + i, 0) ELSE Min(i, Len(s))
    IN  SubSeq(s, start + 1, Len(s))

\* s[:j] for j >= 0
PySliceTo(s, j) == SubSeq(s, 1, Min(j, Len(s)))

IsUser(e) == e.role = "user"
NotUser(e) == e.role # "user"

-----------------------------------------------------------------------------
(* Condenser strategies *)

\* the instances a test or the agent can construct; k is any int
\* (LastKCondenser.__init__ stores it unchecked)
Condenser(type, k) == [type |-> type, k |-> k]

Condensers ==
    {Condenser(t, 0) : t \in {"simple", "noop", "llm"}}
        \cup {Condenser("lastk", k) : k \in -1..MaxK}

\* what llm.completion(messages=...) can do: answer with a text at
\* choices[0].message.content, raise, or answer without that path
LLMResponses ==
    {[kind |-> "text", exc |-> "none", text |-> t] : t \in SummaryTexts}
        \cup {[kind |-> "raise", exc |-> "LLMResponseError",
               text |-> "LLM error"],
              [kind |-> "raise", exc |-> "TimeoutError",
               text |-> "timed out"],
              [kind |-> "malformed", exc |-> "none", text |-> "'choices'"]}

\* llm.completion was not called
NoResponse == [kind |-> "none", exc |-> "none", text |-> ""]

\* what a condense call leaves behind: the list it returned or the exception
\* it raised, the messages it sent to the LLM, and its calls and error logs
Returned(value) ==
    [raised |-> FALSE, value |-> value, exc |-> "none", msg |-> "",
     messages |-> <<>>, llm_calls |-> 0, error_logs |-> <<>>]

NoOutput == Returned(<<>>)

\* SimpleCondenser.condense: events[:1]
SimpleCondense(evs) == PySliceTo(evs, 1)

\* slip: events[1:] handed back
NoOpDropFirst(evs) == PySliceFrom(evs, 1)

\* NoOpCondenser.condense
NoOpCondense(evs) == evs

\* slip: the window cut from the joined list, user messages included
LastKTruncateAll(k, evs) ==
    LET user_messages == SelectSeq(evs, IsUser)
        other_messages == SelectSeq(evs, NotUser)
    IN  IF Len(other_messages) <= k
        THEN user_messages \o other_messages
        ELSE PySliceFrom(user_messages \o other_messages, -k)

\* slip: the input handed back as it is when nothing has to go
LastKInPlace(k, evs) ==
    LET user_messages == SelectSeq(evs, IsUser)
        other_messages == SelectSeq(evs, NotUser)
    IN  IF Len(other_messages) <= k
        THEN evs
        ELSE user_messages \o PySliceFrom(other_messages, -k)

\* slip: other_messages[k:] for other_messages[-k:]
LastKDropFirst(k, evs) ==
    LET user_messages == SelectSeq(evs, IsUser)
        other_messages == SelectSeq(evs, NotUser)
    IN  IF Len(other_messages) <= k
        THEN user_messages \o other_messages
        ELSE user_messages \o PySliceFrom(other_messages, k)

\* LastKCondenser.condense
LastKCondense(k, evs) ==
    LET user_messages == SelectSeq(evs, IsUser)
        other_messages == SelectSeq(evs, NotUser)
    IN  IF Len(other_messages) <= k
        THEN user_messages \o other_messages
        ELSE user_messages \o PySliceFrom(other_messages, -k)

\* the messages built from the events: one {content, role} dict per event
Messages(evs) ==
    [i \in 1..Len(evs) |-> [content |-> evs[i].content, role |-> evs[i].role]]

\* the exception that leaves the try block: the one llm.completion raised,
\* or the KeyError of resp['choices'] on a response without that key
RaisedIn(resp) == IF resp.kind = "raise" THEN resp.exc ELSE "KeyError"

\* slip: the summary appended to the events instead of replacing them
LLMCondenseAppend(evs, resp) ==
    IF resp.kind = "text"
    THEN [raised |-> FALSE,
          value |-> evs \o <<Event(resp.text, "assistant")>>,
          exc |-> "none", msg |-> "", messages |-> Messages(evs),
          llm_calls |-> 1, error_logs |-> <<>>]
    ELSE [raised |-> TRUE, value |-> <<>>, exc |-> RaisedIn(resp),
          msg |-> resp.text, messages |-> Messages(evs), llm_calls |-> 1,
          error_logs |-> <<resp.text>>]

\* slip: the events handed back when the LLM fails
LLMCondenseFallback(evs, resp) ==
    IF resp.kind = "text"
    THEN [raised |-> FALSE, value |-> <<Event(resp.text, "assistant")>>,
          exc |-> "none", msg |-> "", messages |-> Messages(evs),
          llm_calls |-> 1, error_logs |-> <<>>]
    ELSE [raised |-> FALSE, value |-> evs, exc |-> "none", msg |-> "",
          messages |-> Messages(evs), llm_calls |-> 1,
          error_logs |-> <<resp.text>>]

\* slip: the failure wrapped in an exception of the condenser
LLMCondenseWrapped(evs, resp) ==
    IF resp.kind = "text"
    THEN [raised |-> FALSE, value |-> <<Event(resp.text, "assistant")>>,
          exc |-> "none", msg |-> "", messages |-> Messages(evs),
          llm_calls |-> 1, error_logs |-> <<>>]
    ELSE [raised |-> TRUE, value |-> <<>>, exc |-> "CondensationError",
          msg |-> resp.text, messages |-> Messages(evs), llm_calls |-> 1,
          error_logs |-> <<resp.text>>]

\* LLMCondenser.condense under the response resp of llm.completion: the
\* except clause logs str(e) once and re-raises the exception it caught
LLMCondense(evs, resp) ==
    IF resp.kind = "text"
    THEN [raised |-> FALSE, value |-> <<Event(resp.text, "assistant")>>,
          exc |-> "none", msg |-> "", messages |-> Messages(evs),
          llm_calls |-> 1, error_logs |-> <<>>]
    ELSE [raised |-> TRUE, value |-> <<>>, exc |-> RaisedIn(resp),
          msg |-> resp.text, messages |-> Messages(evs), llm_calls |-> 1,
          error_logs |-> <<resp.text>>]

\* c.condense(evs): dispatch on the class of c
Condense(c, evs, resp) ==
    CASE c.type = "simple" -> Returned(SimpleCondense(evs))
      [] c.type = "noop"   -> Returned(NoOpCondense(evs))
      [] c.type = "lastk"  -> Returned(LastKCondense(c.k, evs))
      [] c.type = "llm"    -> LLMCondense(evs, resp)

-----------------------------------------------------------------------------
(* Triggers *)

AlwaysTrigger == [kind |-> "always", min_length |-> 0]
HistoryLengthTrigger(min_length) ==
    [kind |-> "history_length", min_length |-> min_length]

Triggers ==
    {AlwaysTrigger} \cup {HistoryLengthTrigger(m) : m \in 0..MaxMinLength}

\* a Trigger subclass of a caller: should_fire is any pure predicate of the
\* state; here one that fires at the history lengths in fires_at
CustomTrigger(fires_at) == [kind |-> "custom", fires_at |-> fires_at]

CustomTriggers == {CustomTrigger(S) : S \in SUBSET (0..MaxHist)}

\* HistoryLengthTrigger.__init__(min_length): stores min_length as given
NewHistoryLengthTrigger(min_length) ==
    [raised |-> FALSE, error |-> "none",
     trigger |-> HistoryLengthTrigger(min_length)]

\* slip: an empty history never fires
ShouldFireNonEmpty(t, h) ==
    IF t.kind = "always" THEN Len(h) > 0
    ELSE IF t.kind = "history_length" THEN Len(h) >= t.min_length
    ELSE Len(h) \in t.fires_at

\* slip: > for >=
ShouldFireStrict(t, h) ==
    IF t.kind = "always" THEN TRUE
    ELSE IF t.kind = "history_length" THEN Len(h) > t.min_length
    ELSE Len(h) \in t.fires_at

\* slip: == for >=
ShouldFireExact(t, h) ==
    IF t.kind = "always" THEN TRUE
    ELSE IF t.kind = "history_length" THEN Len(h) = t.min_length
    ELSE Len(h) \in t.fires_at

\* trigger.should_fire(state)
ShouldFire(t, h) ==
    IF t.kind = "always" THEN TRUE
    ELSE IF t.kind = "history_length" THEN Len(h) >= t.min_length
    ELSE Len(h) \in t.fires_at

\* state.history after should_fire(state): both triggers only read it
HistoryAfterShouldFire(t, h) == h

-----------------------------------------------------------------------------
(* The registry of condenser classes *)

\* a Condenser subclass: its name and its type_name attribute, if it has one
Class(cls, has_type_name, type_name) ==
    [cls |-> cls, has_type_name |-> has_type_name, type_name |-> type_name]

BuiltInClasses ==
    {Class("LLMCondenser", TRUE, "llm"),
     Class("NoOpCondenser", TRUE, "noop"),
     Class("LastKCondenser", TRUE, "lastk")}

\* the classes register is called with: the built-ins again, classes of tests
\* and plug-ins (two of them under one type_name), and one without type_name
CondenserClasses ==
    BuiltInClasses \cup
        {Class("TestCondenser", TRUE, "test"),
         Class("OtherTestCondenser", TRUE, "test"),
         Class("CustomCondenser", TRUE, "custom"),
         Class("CustomCondenserV2", TRUE, "custom"),
         Class("UntypedCondenser", FALSE, "")}

LookupNames == {"llm", "noop", "lastk", "test", "custom", "nonexistent"}

\* Condenser._registry once the package is imported
BuiltInRegistry ==
    [n \in {"llm", "noop", "lastk"} |->
        CASE n = "llm" -> "LLMCondenser"
          [] n = "noop" -> "NoOpCondenser"
          [] n = "lastk" -> "LastKCondenser"]

NoTypeName == "ValueError: must define type_name"
AlreadyRegistered == "ValueError: Condenser already registered with name"
NotRegistered == "ValueError: No condenser registered with name"

\* slip: the check for an existing entry left out
RegisterOverwrite(reg, c) ==
    IF ~c.has_type_name
    THEN [raised |-> TRUE, error |-> NoTypeName, registry |-> reg]
    ELSE [raised |-> FALSE, error |-> "none",
          registry |-> [n \in DOMAIN reg \cup {c.type_name} |->
                           IF n = c.type_name THEN c.cls ELSE reg[n]]]

\* Condenser.register(condenser_cls)
Register(reg, c) ==
    IF ~c.has_type_name
    THEN [raised |-> TRUE, error |-> NoTypeName, registry |-> reg]
    ELSE IF c.type_name \in DOMAIN reg
         THEN [raised |-> TRUE, error |-> AlreadyRegistered, registry |-> reg]
         ELSE [raised |-> FALSE, error |-> "none",
               registry |-> [n \in DOMAIN reg \cup {c.type_name} |->
                                IF n = c.type_name THEN c.cls ELSE reg[n]]]

\* slip: a default class for a name that is not there
GetClsDefault(reg, name) ==
    IF name \notin DOMAIN reg
    THEN [raised |-> FALSE, error |-> "none", value |-> "NoOpCondenser"]
    ELSE [raised |-> FALSE, error |-> "none", value |-> reg[name]]

\* Condenser.get_cls(name)
GetCls(reg, name) ==
    IF name \notin DOMAIN reg
    THEN [raised |-> TRUE, error |-> NotRegistered, value |-> "none"]
    ELSE [raised |-> FALSE, error |-> "none", value |-> reg[name]]

NoCall ==
    [op |-> "none", name |-> "", cls |-> "none", raised |-> FALSE,
     error |-> "none", value |-> "none", before |-> BuiltInRegistry]

RegisterClass ==
    /\ \E c \in CondenserClasses :
          LET r == Register(registry, c)
          IN  /\ registry' = r.registry
              /\ first_registered' =
                    IF ~r.raised /\ c.type_name \notin DOMAIN first_registered
                    THEN [n \in DOMAIN first_registered \cup {c.type_name} |->
                             IF n = c.type_name THEN c.cls
                             ELSE first_registered[n]]
                    ELSE first_registered
              /\ reg_call' = [op |-> "register", name |-> c.type_name,
                              cls |-> c.cls, raised |-> r.raised,
                              error |-> r.error, value |-> "none",
                              before |-> registry]
    /\ UNCHANGED config
    /\ UNCHANGED <<rollingVars, condenseVars, triggerVars>>

GetClass ==
    /\ \E name \in LookupNames :
          LET r == GetCls(registry, name)
          IN  reg_call' = [op |-> "get", name |-> name, cls |-> "none",
                           raised |-> r.raised, error |-> r.error,
                           value |-> r.value, before |-> registry]
    /\ UNCHANGED <<registry, first_registered, config>>
    /\ UNCHANGED <<rollingVars, condenseVars, triggerVars>>

\* the values a caller passes as type: the default, and two that are not
\* the literal "lastk"
GivenTypes == {"lastk", "invalid", "noop"}

\* the values a caller passes as k: an int, or a string that is no number
GivenKs ==
    {[int |-> TRUE, value |-> v] : v \in -1..MaxK}
        \cup {[int |-> FALSE, value |-> 0]}

\* LastKCondenserConfig(type=given_type, k=given_k): type must be the literal
\* "lastk" and k must be an int; the field k carries no other constraint
NewLastKCondenserConfig(given_type, given_k) ==
    IF given_type # "lastk" \/ ~given_k.int
    THEN [outcome |-> "ValidationError", type |-> "", k |-> 0,
          given_type |-> given_type, given_k |-> given_k]
    ELSE [outcome |-> "constructed", type |-> given_type,
          k |-> given_k.value, given_type |-> given_type,
          given_k |-> given_k]

ConstructLastKCondenserConfig ==
    /\ \E t \in GivenTypes, k \in GivenKs :
          config' = NewLastKCondenserConfig(t, k)
    /\ UNCHANGED <<registry, first_registered, reg_call>>
    /\ UNCHANGED <<rollingVars, condenseVars, triggerVars>>

NoConfig ==
    [outcome |-> "none", type |-> "", k |-> 0, given_type |-> "",
     given_k |-> [int |-> TRUE, value |-> 0]]

InitSetup ==
    /\ registry = BuiltInRegistry
    /\ first_registered = BuiltInRegistry
    /\ reg_call = NoCall
    /\ config = NoConfig

NoTrigger == [outcome |-> "none", min_length |-> 0]

InitTriggers ==
    /\ built = NoTrigger
    /\ evaluated = FALSE

-----------------------------------------------------------------------------
(* The rolling condenser: condensed_history(state) *)

MetadataKey == "condenser_meta"

\* metadata_batch(state): the scoped region around the wrapped condense call
\* writes its metadata to state.extra_data on exit, whether or not the call
\* raised, and lets the exception through
MetadataBatch(extra) == extra \cup {MetadataKey}

\* slip: the whole history taken as new
NewEventsFromStart(h, last) == h

\* new_events = state.history[self._last_history_length:]
NewEvents(h, last) == PySliceFrom(h, last)

\* slip: the new events put before the accumulated condensation
CurrentEventsNewFirst(c, new_events) == new_events \o c

\* slip: the accumulated condensation left out
CurrentEventsDelta(c, new_events) == new_events

\* current_events = self._condensation + new_events
CurrentEvents(c, new_events) == c \o new_events

\* the branch taken when the trigger does not fire
PassThrough(current_events, h) ==
    [condensation |-> current_events,
     last_history_length |-> Len(h),
     result |-> current_events]

\* slip: the watermark taken from the condensed list
CommitCondensedLength(results, h) ==
    [condensation |-> results,
     last_history_length |-> Len(results),
     result |-> results]

\* the assignments after a condense call that returned
Commit(results, h) ==
    [condensation |-> results,
     last_history_length |-> Len(h),
     result |-> results]

\* slip: the assignments run although condense raised
CondenseBranchEager(r, h, c, last, res) ==
    [condensation |-> r.value,
     last_history_length |-> Len(h),
     result |-> res]

\* the branch taken when the trigger fires, r being what self.condense did:
\* an exception leaves the with block and the method, so the assignments
\* after the block do not run
CondenseBranch(r, h, c, last, res) ==
    IF r.raised
    THEN [condensation |-> c, last_history_length |-> last, result |-> res]
    ELSE Commit(r.value, h)

\* what the call found on entry
Entry ==
    [history |-> history, condensation |-> condensation,
     last_history_length |-> last_history_length]

\* rounds of (append one event, call) made so far, -1 once the caller has
\* left that rhythm
NextSteps ==
    IF steps >= 0 /\ Len(history) = steps + 1 THEN steps + 1 ELSE -1

CondensedHistory ==
    LET current_events ==
            CurrentEvents(condensation, NewEvents(history, last_history_length))
    IN  /\ seen' = Entry
        /\ steps' = NextSteps
        /\ fired' = ShouldFire(trigger, history)
        /\ IF ~ShouldFire(trigger, history)
           THEN LET after == PassThrough(current_events, history)
                IN  /\ condensation' = after.condensation
                    /\ last_history_length' = after.last_history_length
                    /\ result' = after.result
                    /\ outcome' = "returned"
                    /\ error' = "none"
                    /\ condense_calls' = 0
                    /\ UNCHANGED extra_data
           ELSE \E resp \in LLMResponses :
                LET r == Condense(strategy, current_events, resp)
                    after == CondenseBranch(r, history, condensation,
                                            last_history_length, result)
                IN  /\ extra_data' = MetadataBatch(extra_data)
                    /\ condense_calls' = 1
                    /\ condensation' = after.condensation
                    /\ last_history_length' = after.last_history_length
                    /\ result' = after.result
                    /\ outcome' = IF r.raised THEN "raised" ELSE "returned"
                    /\ error' = r.exc
        /\ history' = HistoryAfterShouldFire(trigger, history)
        /\ UNCHANGED <<trigger, strategy, shrinks>>
        /\ UNCHANGED <<condenseVars, setupVars, triggerVars>>

\* the agent loop appends one event to state.history
AppendEvent ==
    /\ Len(history) < MaxHist
    /\ \E e \in HistoryEvents : history' = Append(history, e)
    /\ UNCHANGED <<extra_data, trigger, strategy, condensation,
                   last_history_length, outcome, result, error, fired,
                   condense_calls, seen, steps, shrinks>>
    /\ UNCHANGED <<condenseVars, setupVars, triggerVars>>

\* state.history loses its last event, against the append-only contract
ShrinkHistory ==
    /\ shrinks < MaxShrinks
    /\ history # <<>>
    /\ history' = SubSeq(history, 1, Len(history) - 1)
    /\ shrinks' = shrinks + 1
    /\ UNCHANGED <<extra_data, trigger, strategy, condensation,
                   last_history_length, outcome, result, error, fired,
                   condense_calls, seen, steps>>
    /\ UNCHANGED <<condenseVars, setupVars, triggerVars>>

NoEntry == [history |-> <<>>, condensation |-> <<>>, last_history_length |-> 0]

InitRolling ==
    /\ history = <<>>
    /\ extra_data = {}
    /\ condensation = <<>>
    /\ last_history_length = 0
    /\ outcome = "none"
    /\ result = <<>>
    /\ error = "none"
    /\ fired = FALSE
    /\ condense_calls = 0
    /\ seen = NoEntry
    /\ steps = 0
    /\ shrinks = 0

InitCondense ==
    /\ output = NoOutput
    /\ llm_response = NoResponse
    /\ applied = FALSE
    /\ fed = FALSE

Init ==
    /\ InitRolling
    /\ trigger \in Triggers
    /\ strategy \in Condensers
    /\ InitCondense
    /\ events = <<>>
    /\ cond = Condenser("noop", 0)
    /\ InitSetup
    /\ InitTriggers

Next == CondensedHistory \/ AppendEvent

Spec == Init /\ [][Next]_vars

NextShrink == CondensedHistory \/ AppendEvent \/ ShrinkHistory

SpecShrink == Init /\ [][NextShrink]_vars

-----------------------------------------------------------------------------
(* Direct condense calls on one strategy instance *)

\* result = cond.condense(events)
CondenseEvents ==
    /\ ~applied
    /\ \E resp \in LLMResponses :
          /\ output' = Condense(cond, events, resp)
          /\ llm_response' = IF cond.type = "llm" THEN resp ELSE NoResponse
    /\ applied' = TRUE
    /\ UNCHANGED <<events, cond, fed>>
    /\ UNCHANGED <<rollingVars, setupVars, triggerVars>>

\* the caller passes the list it got back to the same instance again
FeedBack ==
    /\ applied
    /\ ~fed
    /\ ~output.raised
    /\ events' = output.value
    /\ applied' = FALSE
    /\ fed' = TRUE
    /\ UNCHANGED <<cond, output, llm_response>>
    /\ UNCHANGED <<rollingVars, setupVars, triggerVars>>

InitStrategies ==
    /\ InitRolling
    /\ trigger = AlwaysTrigger
    /\ strategy = Condenser("noop", 0)
    /\ InitCondense
    /\ events \in SeqsUpTo(Events, MaxLen)
    /\ cond \in Condensers
    /\ InitSetup
    /\ InitTriggers

NextStrategies == CondenseEvents \/ FeedBack

SpecStrategies == InitStrategies /\ [][NextStrategies]_vars

-----------------------------------------------------------------------------
(* Properties of the rolling condenser *)

\* the events appended to the history since the watermark, for a history
\* that did not shrink
Unseen(e) == SubSeq(e.history, e.last_history_length + 1, Len(e.history))

\* C1: when should_fire(state) is false, condensed_history returns exactly
\* accumulated_condensation ++ state.history[last_observed_history_length:],
\* stores that list as the new accumulated condensation, sets the watermark
\* to len(state.history), and does not invoke the wrapped condense.
C1_PassThroughReturnsCurrent ==
    (outcome = "returned" /\ ~fired) =>
        /\ result = seen.condensation \o Unseen(seen)
        /\ condensation = result
        /\ last_history_length = Len(seen.history)
        /\ condense_calls = 0

C1_Witness ==
    /\ outcome = "returned"
    /\ ~fired
    /\ seen.condensation # <<>>
    /\ Len(seen.history) > seen.last_history_length
    /\ condense_calls = 0

\* C2: when should_fire(state) is true and condense returns, the call returns
\* condense(accumulated_condensation ++ the unseen tail of the history),
\* stores it as the new accumulated condensation and sets the watermark to
\* len(state.history); condense is invoked once.
C2_FiredReturnsCondensed ==
    (outcome = "returned" /\ fired) =>
        /\ \E resp \in LLMResponses :
              LET r == Condense(strategy, seen.condensation \o Unseen(seen),
                                resp)
              IN  ~r.raised /\ result = r.value
        /\ condensation = result
        /\ last_history_length = Len(seen.history)
        /\ condense_calls = 1

C2_Witness ==
    /\ outcome = "returned"
    /\ fired
    /\ strategy.type = "simple"
    /\ seen.condensation # <<>>
    /\ Len(seen.history) > seen.last_history_length
    /\ result = <<seen.condensation[1]>>

\* C3: over a history that only grows by appends, the watermark is an integer
\* >= 0, a successful call never lowers it, and after the call it equals
\* len(state.history) as that call saw it.
C3_WatermarkMonotone ==
    /\ last_history_length \in Nat
    /\ outcome = "returned" =>
          /\ last_history_length >= seen.last_history_length
          /\ last_history_length = Len(seen.history)

C3_Witness ==
    /\ outcome = "returned"
    /\ fired
    /\ seen.last_history_length > 0
    /\ last_history_length > seen.last_history_length
    /\ Len(condensation) < last_history_length

\* C4: with HistoryLengthTrigger(m) and the strategy that keeps the first
\* event, appending one event before each call, the n-th call returns the
\* full history of n events when n < m and [history[0]] when n >= m.
C4_FirstEventOnceLongEnough ==
    (/\ trigger.kind = "history_length"
     /\ strategy.type = "simple"
     /\ steps >= 1
     /\ outcome = "returned") =>
        /\ Len(seen.history) = steps
        /\ result = IF steps < trigger.min_length
                    THEN seen.history
                    ELSE <<seen.history[1]>>

C4_Witness ==
    /\ trigger = HistoryLengthTrigger(2)
    /\ strategy.type = "simple"
    /\ steps = 3
    /\ outcome = "returned"
    /\ result = <<history[1]>>
    /\ Len(history) = 3

\* C5: a call that finds len(state.history) below the watermark fails with a
\* HistoryConsistencyError instead of returning a result.
C5_ShrunkHistoryFails ==
    (outcome # "none" /\ Len(seen.history) < seen.last_history_length) =>
        /\ outcome = "raised"
        /\ error = "HistoryConsistencyError"

\* C6: when the wrapped condense raises, the exception reaches the caller
\* and the call changes neither the accumulated condensation nor the
\* watermark, so the next call takes its delta from the old watermark.
C6_FailedCondenseCommitsNothing ==
    outcome = "raised" =>
        /\ error \in {"LLMResponseError", "TimeoutError", "KeyError"}
        /\ condense_calls = 1
        /\ condensation = seen.condensation
        /\ last_history_length = seen.last_history_length

C6_Witness ==
    /\ outcome = "raised"
    /\ error = "LLMResponseError"
    /\ seen.condensation # <<>>
    /\ Len(seen.history) > seen.last_history_length
    /\ last_history_length = seen.last_history_length

-----------------------------------------------------------------------------
(* Properties of the strategies *)

UserEvents(evs) == SelectSeq(evs, IsUser)
OtherEvents(evs) == SelectSeq(evs, NotUser)

\* the last n elements of s, for 0 <= n <= Len(s)
LastN(s, n) == SubSeq(s, Len(s) - n + 1, Len(s))

\* no non-user event comes before a user event in evs
Grouped(evs) ==
    \A i, j \in DOMAIN evs : (NotUser(evs[i]) /\ IsUser(evs[j])) => j < i

RanLastK == applied /\ cond.type = "lastk" /\ ~output.raised

\* C7: for every input and every k, the user-role events of
\* LastKCondenser(k).condense(events) are all the user-role events of the
\* input, each once, in their original relative order.
C7_LastKKeepsUserEvents ==
    RanLastK => UserEvents(output.value) = UserEvents(events)

C7_Witness ==
    /\ RanLastK
    /\ cond.k = 1
    /\ Len(UserEvents(events)) = 2
    /\ Len(OtherEvents(events)) = 2
    /\ NotUser(events[1])
    /\ Len(output.value) = 3
    /\ UserEvents(output.value) = UserEvents(events)

\* C8: for every input and every k >= 0, k = 0 included, the non-user events
\* of LastKCondenser(k).condense(events) are the last min(k, count of
\* non-user events) non-user events of the input, in original order.
C8_LastKKeepsLastKOthers ==
    (RanLastK /\ cond.k >= 0) =>
        OtherEvents(output.value) =
            LastN(OtherEvents(events), Min(cond.k, Len(OtherEvents(events))))

\* C9: LastKCondenser(k).condense emits every user-role event before any
\* non-user event; when count(non-user) <= k the output is all user events
\* followed by all non-user events, which equals the input only when no
\* non-user event precedes a user event in the input.
C9_LastKGroupsUsersFirst ==
    RanLastK =>
        /\ Grouped(output.value)
        /\ Len(OtherEvents(events)) <= cond.k =>
              /\ output.value = UserEvents(events) \o OtherEvents(events)
              /\ (output.value = events) <=> Grouped(events)

C9_Witness ==
    /\ RanLastK
    /\ Len(OtherEvents(events)) <= cond.k
    /\ Len(output.value) = Len(events)
    /\ output.value # events
    /\ ~Grouped(events)

\* C10: for every input and every k >= 0, LastKCondenser(k).condense applied
\* to its own output returns that output unchanged, and so does
\* NoOpCondenser.condense.
C10_CondenseIdempotent ==
    (/\ applied
     /\ fed
     /\ \/ cond.type = "lastk" /\ cond.k >= 0
        \/ cond.type = "noop") =>
        output.value = events

C10_Witness ==
    /\ applied
    /\ fed
    /\ cond = Condenser("lastk", 1)
    /\ Len(UserEvents(events)) = 2
    /\ Len(OtherEvents(events)) = 1
    /\ output.value = events

-----------------------------------------------------------------------------
(* Registry runs *)

InitRegistry ==
    /\ InitRolling
    /\ trigger = AlwaysTrigger
    /\ strategy = Condenser("noop", 0)
    /\ InitCondense
    /\ events = <<>>
    /\ cond = Condenser("noop", 0)
    /\ InitSetup
    /\ InitTriggers

NextRegistry == RegisterClass \/ GetClass \/ ConstructLastKCondenserConfig

SpecRegistry == InitRegistry /\ [][NextRegistry]_vars

-----------------------------------------------------------------------------
(* Properties of the registry *)

\* C11: registering a name that is already present fails with a
\* duplicate-registration error and leaves the registry unchanged; after any
\* sequence of register and get calls every name maps to the class of its
\* first successful registration, and no entry is removed or overwritten.
C11_DuplicateRegistrationRejected ==
    /\ (reg_call.op = "register" /\ reg_call.name \in DOMAIN reg_call.before)
          => /\ reg_call.raised
             /\ reg_call.error = AlreadyRegistered
             /\ registry = reg_call.before
    /\ \A n \in DOMAIN reg_call.before :
          n \in DOMAIN registry /\ registry[n] = reg_call.before[n]
    /\ registry = first_registered

C11_Witness ==
    /\ reg_call.op = "register"
    /\ reg_call.cls = "OtherTestCondenser"
    /\ reg_call.raised
    /\ "test" \in DOMAIN registry
    /\ registry["test"] = "TestCondenser"

\* C12: get_cls(name) returns exactly the class registered under name when
\* name is present and fails with an unknown-strategy error when it is not;
\* a lookup never changes the registry.
C12_LookupReturnsRegistered ==
    reg_call.op = "get" =>
        /\ registry = reg_call.before
        /\ IF reg_call.name \in DOMAIN first_registered
           THEN /\ ~reg_call.raised
                /\ reg_call.value = first_registered[reg_call.name]
           ELSE /\ reg_call.raised
                /\ reg_call.error = NotRegistered

C12_Witness ==
    /\ reg_call.op = "get"
    /\ reg_call.name = "custom"
    /\ ~reg_call.raised
    /\ reg_call.value = "CustomCondenserV2"
    /\ "test" \notin DOMAIN registry

-----------------------------------------------------------------------------
(* Trigger runs: constructing a trigger and evaluating it on a state *)

\* trigger = HistoryLengthTrigger(min_length=m)
ConstructHistoryLengthTrigger ==
    /\ \E m \in -1..MaxMinLength :
          LET r == NewHistoryLengthTrigger(m)
          IN  /\ built' = [outcome |-> IF r.raised THEN "raised"
                                       ELSE "constructed",
                           min_length |-> m]
              /\ trigger' = IF r.raised THEN trigger ELSE r.trigger
    /\ evaluated' = FALSE
    /\ UNCHANGED <<history, extra_data, strategy, condensation,
                   last_history_length, outcome, result, error, fired,
                   condense_calls, seen, steps, shrinks>>
    /\ UNCHANGED <<condenseVars, setupVars>>

\* trigger = AlwaysTrigger()
ConstructAlwaysTrigger ==
    /\ trigger' = AlwaysTrigger
    /\ built' = NoTrigger
    /\ evaluated' = FALSE
    /\ UNCHANGED <<history, extra_data, strategy, condensation,
                   last_history_length, outcome, result, error, fired,
                   condense_calls, seen, steps, shrinks>>
    /\ UNCHANGED <<condenseVars, setupVars>>

\* fired = trigger.should_fire(state)
EvaluateTrigger ==
    /\ ~evaluated
    /\ fired' = ShouldFire(trigger, history)
    /\ history' = HistoryAfterShouldFire(trigger, history)
    /\ seen' = Entry
    /\ evaluated' = TRUE
    /\ UNCHANGED <<extra_data, trigger, strategy, condensation,
                   last_history_length, outcome, result, error,
                   condense_calls, steps, shrinks, built>>
    /\ UNCHANGED <<condenseVars, setupVars>>

InitTriggerRuns ==
    /\ history \in SeqsUpTo(HistoryEvents, MaxHist)
    /\ trigger = AlwaysTrigger
    /\ strategy = Condenser("noop", 0)
    /\ extra_data = {}
    /\ condensation = <<>>
    /\ last_history_length = 0
    /\ outcome = "none"
    /\ result = <<>>
    /\ error = "none"
    /\ fired = FALSE
    /\ condense_calls = 0
    /\ seen = NoEntry
    /\ steps = 0
    /\ shrinks = 0
    /\ InitCondense
    /\ events = <<>>
    /\ cond = Condenser("noop", 0)
    /\ InitSetup
    /\ InitTriggers

NextTriggers ==
    ConstructHistoryLengthTrigger \/ ConstructAlwaysTrigger \/ EvaluateTrigger

SpecTriggers == InitTriggerRuns /\ [][NextTriggers]_vars

-----------------------------------------------------------------------------
(* Properties of the triggers *)

\* C13: HistoryLengthTrigger(min_length).should_fire(state) is true if and
\* only if len(state.history) >= min_length, for every history length, and
\* evaluating it leaves state.history unchanged.
C13_FiresIffLongEnough ==
    (evaluated /\ trigger.kind = "history_length") =>
        /\ fired <=> (Len(seen.history) >= trigger.min_length)
        /\ history = seen.history

C13_Witness ==
    /\ evaluated
    /\ trigger = HistoryLengthTrigger(2)
    /\ Len(history) = 2
    /\ history = seen.history
    /\ fired

\* C14: constructing a HistoryLengthTrigger with min_length <= 0 fails with
\* an invalid-configuration error at construction time, so no trigger with a
\* non-positive threshold ever exists.
C14_NonPositiveThresholdRejected ==
    /\ (built.outcome # "none" /\ built.min_length <= 0)
          => built.outcome = "raised"
    /\ trigger.kind = "history_length" => trigger.min_length > 0

\* C19: AlwaysTrigger.should_fire(state) is true for every state, the empty
\* history and the longest one included.
C19_AlwaysFires ==
    (evaluated /\ trigger.kind = "always") => fired

C19_Witness ==
    /\ evaluated
    /\ trigger = AlwaysTrigger
    /\ seen.history = <<>>
    /\ fired

-----------------------------------------------------------------------------
(* Properties of the LLM and pass-through strategies *)

RanLLM == applied /\ cond.type = "llm"

\* C15: LLMCondenser.condense issues exactly one call to the LLM, passing
\* the role and content of every input event in input order, and on success
\* returns one Event with role "assistant" whose content is the text at
\* choices[0].message.content, however many events were passed in.
C15_LLMReturnsOneSummary ==
    RanLLM =>
        /\ output.llm_calls = 1
        /\ Len(output.messages) = Len(events)
        /\ \A i \in DOMAIN events :
              /\ output.messages[i].role = events[i].role
              /\ output.messages[i].content = events[i].content
        /\ llm_response.kind = "text" =>
              /\ ~output.raised
              /\ Len(output.value) = 1
              /\ output.value[1].role = "assistant"
              /\ output.value[1].content = llm_response.text

C15_Witness ==
    /\ RanLLM
    /\ Len(events) = 4
    /\ llm_response.kind = "text"
    /\ llm_response.text = "t"
    /\ output.value = <<Event("t", "assistant")>>

\* C16: when the LLM call raises, the same exception (type and message)
\* reaches the caller, exactly one error log entry is written, the LLM is
\* not called a second time, and no event list is returned.
C16_LLMErrorPropagates ==
    (RanLLM /\ llm_response.kind = "raise") =>
        /\ output.raised
        /\ output.exc = llm_response.exc
        /\ output.msg = llm_response.text
        /\ output.error_logs = <<llm_response.text>>
        /\ output.llm_calls = 1
        /\ output.value = <<>>

C16_Witness ==
    /\ RanLLM
    /\ llm_response.kind = "raise"
    /\ llm_response.exc = "LLMResponseError"
    /\ output.raised
    /\ Len(events) = 2
    /\ Len(output.error_logs) = 1

\* C17 as stated: any failure of the summarization call, a transport error
\* or a response without choices[0].message.content, reaches the caller as
\* a CondensationError.
C17_FailureIsCondensationError ==
    (RanLLM /\ llm_response.kind # "text") =>
        /\ output.raised
        /\ output.exc = "CondensationError"

\* C17 as amended: any failure of the summarization call reaches the caller
\* as the exception that occurred, not wrapped: the one the LLM call raised,
\* or the KeyError of a response without the choices key.
C17_FailureKeepsItsType ==
    (RanLLM /\ llm_response.kind # "text") =>
        /\ output.raised
        /\ output.exc = IF llm_response.kind = "raise"
                        THEN llm_response.exc
                        ELSE "KeyError"
        /\ output.exc # "CondensationError"

C17_Witness ==
    /\ RanLLM
    /\ llm_response.kind = "malformed"
    /\ output.raised
    /\ output.exc = "KeyError"
    /\ events # <<>>

\* C18: NoOpCondenser.condense(events) returns a sequence equal to events,
\* the empty sequence included, and does not fail.
C18_NoOpReturnsInput ==
    (applied /\ cond.type = "noop") =>
        /\ ~output.raised
        /\ output.value = events

C18_Witness ==
    /\ applied
    /\ ~fed
    /\ cond.type = "noop"
    /\ Len(events) = 3
    /\ output.value = events

-----------------------------------------------------------------------------
(* Properties of the configuration *)

\* C20: constructing the fixed-window configuration validates its fields: a
\* discriminant other than "lastk" is rejected and a retention count k < 0
\* is rejected, so no configuration with a negative k is ever constructed.
C20_ConfigRejectsBadFields ==
    /\ (config.outcome # "none" /\ config.given_type # "lastk")
          => config.outcome = "ValidationError"
    /\ (config.outcome # "none" /\ config.given_k.int
            /\ config.given_k.value < 0)
          => config.outcome = "ValidationError"
    /\ config.outcome = "constructed" => (config.type = "lastk" /\ config.k >= 0)

-----------------------------------------------------------------------------
(* The rolling condenser around LastKCondenser, under any trigger *)

LastKCondensers == {c \in Condensers : c.type = "lastk"}

InitRollingLastK ==
    /\ InitRolling
    /\ trigger \in Triggers \cup CustomTriggers
    /\ strategy \in LastKCondensers
    /\ InitCondense
    /\ events = <<>>
    /\ cond = Condenser("noop", 0)
    /\ InitSetup
    /\ InitTriggers

SpecRollingLastK == InitRollingLastK /\ [][Next]_vars

\* C21: a rolling condenser around LastKCondenser(k), k >= 0, returns in
\* every call in which the trigger fires exactly
\* LastKCondenser(k).condense(state.history) of the full current history,
\* for any append-only history, any trigger and any sequence of calls.
C21_RollingLastKEqualsWhole ==
    (/\ outcome = "returned"
     /\ fired
     /\ strategy.type = "lastk"
     /\ strategy.k >= 0) =>
        result = LastKCondense(strategy.k, seen.history)

\* a firing call after an earlier firing call and a pass-through call, with
\* events dropped by the window
C21_Witness ==
    /\ outcome = "returned"
    /\ fired
    /\ strategy = Condenser("lastk", 1)
    /\ trigger = CustomTrigger({1, 3})
    /\ Len(seen.history) = 3
    /\ seen.last_history_length = 2
    /\ Len(seen.condensation) = 2
    /\ Len(result) < 3
    /\ result = LastKCondense(1, history)

-----------------------------------------------------------------------------
(* The rolling condenser gated by HistoryLengthTrigger *)

\* the last call ran under a HistoryLengthTrigger
CalledUnderHistoryLength == outcome # "none" /\ trigger.kind = "history_length"

\* C22: under an append-only history a rolling condenser gated by
\* HistoryLengthTrigger invokes the wrapped condense zero times in every call
\* made while len(state.history) < min_length and exactly once in every call
\* made with len(state.history) >= min_length; once a call has fired, no
\* later call takes the pass-through branch.
C22_HistoryLengthMonotone ==
    /\ [](CalledUnderHistoryLength =>
            /\ fired = (Len(seen.history) >= trigger.min_length)
            /\ condense_calls = IF Len(seen.history) < trigger.min_length
                                THEN 0 ELSE 1)
    /\ [][(CalledUnderHistoryLength /\ fired) => fired']_vars

\* a firing call that follows a pass-through call and an earlier firing call
C22_Witness ==
    /\ trigger = HistoryLengthTrigger(2)
    /\ outcome = "returned"
    /\ fired
    /\ condense_calls = 1
    /\ Len(seen.history) = 3
    /\ seen.last_history_length = 2
    /\ seen.condensation # <<>>
    /\ steps = 3

====
